---- MODULE Spec2Model ----
(***************************************************************************)
(* State-machine model of the Telegram post bot (main.py, addch.py,        *)
(* post.py, init_db.py, db_handler.py) and of the registration flow of the *)
(* single-file variant post_bot.py.                                        *)
(*                                                                         *)
(* One action per handler.  A handler is taken as one step: the update is  *)
(* handled from its first to its last line.  What the handler sends back   *)
(* (replies), what it asks of the outside (Bot API calls, SQL statements)  *)
(* and the exception it ends with are recorded in `last`.                  *)
(*                                                                         *)
(* The channel table lives in the file Post.db, which outlives the         *)
(* process (init_db.setup_db only creates tables that do not exist), so    *)
(* the table holds rows when the process starts.                           *)
(*                                                                         *)
(* Texts are sequences of one-character strings, so that strip, split,     *)
(* replace and the substring tests are computed as Python computes them.   *)
(* None is the empty text "" / <<>>, the id 0, or the chat NoChat.         *)
(*                                                                         *)
(* main.py builds the application with concurrent_updates(True): a handler *)
(* may run while another waits at an await.  The specifications           *)
(* SpecRaceAddch and SpecRacePost split the handlers that wait for the     *)
(* Bot API at that await; the handlers that wait are kept in `suspended`.  *)
(***************************************************************************)
EXTENDS Integers, Sequences, FiniteSets, TLC

VARIABLES
    WAITING_ADD_CHANNEL,   \* addch.py: the keys of the dict (every value is True)
    USER_SESSION,          \* post.py: user id -> session dict (a function on its keys)
    channels,              \* Post.db, table channels: channel_id -> row, NoRow if none
    user_states,           \* post_bot.py: user id -> UserState value
    pb_channels,           \* post_bot.py: db.data["channels"], channel id -> title
    last,                  \* what the last handled update produced
    run,                   \* history: how far the last updates follow the new-post run
    inbound,               \* history: the message the forward detection was applied to
    suspended              \* the handlers that wait at an await, where handlers are split

vars == <<WAITING_ADD_CHANNEL, USER_SESSION, channels, user_states, pb_channels, last, run,
          inbound, suspended>>

----------------------------------------------------------------------------
(* Bounds of the model *)

\* a draft holds at most this many buttons
MaxButtons == 2
\* the page of the channel list is followed this far from page 0
MaxPage == 2
\* at most this many handlers wait at an await at once
MaxSuspended == 2

----------------------------------------------------------------------------
(* Program constants and the values updates are drawn from *)

\* post.py OWNER_ID = 5373577888, main.py the same; only equality is used
OWNER_ID == 1
PAGE_SIZE == 12

Users == {OWNER_ID, OWNER_ID + 1}
\* post_bot.py: Database.data["admins"]; the owner and no user of the model besides
Admins == {OWNER_ID}

ChannelA == 0 - 1001
ChannelB == 0 - 1002
ChannelIds == {ChannelA, ChannelB}
\* a chat that is no channel (a group)
GroupId == 0 - 2001
MsgIds == {7}

NoChat == [id |-> 0, type |-> "none", title |-> ""]
TitleOf(cid) == IF cid = ChannelA THEN "News" ELSE "Sport"
ChannelChat(cid) == [id |-> cid, type |-> "channel", title |-> TitleOf(cid)]
GroupChat == [id |-> GroupId, type |-> "group", title |-> "Chat"]
\* a channel whose title Telegram did not send
UntitledChannel == [id |-> ChannelA, type |-> "channel", title |-> ""]
\* a channel chat without a usable id
IdlessChannel == [id |-> 0, type |-> "channel", title |-> "News"]

NoRow == [channel_title |-> "", owner_id |-> 0]

----------------------------------------------------------------------------
(* Python str operations on texts *)

IsSpace(c) == c \in {" ", "\n", "\t"}

RECURSIVE LStrip(_)
LStrip(s) == IF s # <<>> /\ IsSpace(Head(s)) THEN LStrip(Tail(s)) ELSE s

RECURSIVE RStrip(_)
RStrip(s) == IF s # <<>> /\ IsSpace(s[Len(s)]) THEN RStrip(SubSeq(s, 1, Len(s) - 1)) ELSE s

\* str.strip()
Strip(s) == RStrip(LStrip(s))

\* s[i:].startswith(p), i counted from 1
MatchAt(s, p, i) == /\ i + Len(p) - 1 <= Len(s)
                    /\ SubSeq(s, i, i + Len(p) - 1) = p

\* str.find(p) + 1: the first place of p in s, 0 if none
Find(s, p) == IF \E i \in 1..Len(s) : MatchAt(s, p, i)
              THEN CHOOSE i \in 1..Len(s) : /\ MatchAt(s, p, i)
                                             /\ \A j \in 1..(i - 1) : ~MatchAt(s, p, j)
              ELSE 0

\* p in s
Contains(s, p) == Find(s, p) # 0

\* s.split(p): all the parts
RECURSIVE Split(_, _)
Split(s, p) == IF Find(s, p) = 0 THEN <<s>>
               ELSE <<SubSeq(s, 1, Find(s, p) - 1)>>
                    \o Split(SubSeq(s, Find(s, p) + Len(p), Len(s)), p)

\* s.split(p, 1): at most two parts
Split1(s, p) == IF Find(s, p) = 0 THEN <<s>>
                ELSE <<SubSeq(s, 1, Find(s, p) - 1), SubSeq(s, Find(s, p) + Len(p), Len(s))>>

\* s.replace(p, "")
RECURSIVE Remove(_, _)
Remove(s, p) == IF Find(s, p) = 0 THEN s
                ELSE SubSeq(s, 1, Find(s, p) - 1)
                     \o Remove(SubSeq(s, Find(s, p) + Len(p), Len(s)), p)

----------------------------------------------------------------------------
(* Inbound messages *)

NoOrigin == [present |-> FALSE, chat |-> NoChat]
Origin(chat) == [present |-> TRUE, chat |-> chat]

\* telegram.Message as the handlers read it.  kind says which of text, photo,
\* video, document is set ("other": none of them, a sticker or a voice note).
Msg(kind, text, caption, file_id, ffc, ff, fo, fsn, fmid) ==
    [kind |-> kind, text |-> text, caption |-> caption, file_id |-> file_id,
     forward_from_chat |-> ffc, forward_from |-> ff, forward_origin |-> fo,
     forward_sender_name |-> fsn, forward_from_message_id |-> fmid]

\* session["message"] = None
NoMessage == Msg("none", <<>>, <<>>, "", NoChat, FALSE, NoOrigin, "", 0)

Hello == <<"H", "i">>
Plain(kind, text, caption, file_id) ==
    Msg(kind, text, caption, file_id, NoChat, FALSE, NoOrigin, "", 0)
TextMsg(text) == Plain("text", text, <<>>, "")
\* a text message forwarded from a channel, old-style fields and the origin set
ForwardOf(cid, mid) ==
    Msg("text", Hello, <<>>, "", ChannelChat(cid), FALSE, Origin(ChannelChat(cid)), "", mid)

\* every combination of the representations of "forwarded from" the resolver reads
DirectChats == {NoChat, ChannelChat(ChannelA), GroupChat}
OriginFields == {NoOrigin, Origin(NoChat), Origin(ChannelChat(ChannelA)), Origin(GroupChat)}
ForwardCombos ==
    { Msg("text", Hello, <<>>, "", ffc, ff, fo, fsn, IF ffc = NoChat /\ ~fo.present THEN 0 ELSE 7) :
        ffc \in DirectChats, ff \in BOOLEAN, fo \in OriginFields, fsn \in {"", "Anon"} }
\* and forwards of the other channel, of a channel without title, of one without id
RegistrationMessages ==
    ForwardCombos \cup {ForwardOf(ChannelB, 7),
                        Msg("text", Hello, <<>>, "", UntitledChannel, FALSE, NoOrigin, "", 7),
                        Msg("text", Hello, <<>>, "", IdlessChannel, FALSE, NoOrigin, "", 7)}

----------------------------------------------------------------------------
(* What a handler produces *)

\* one request to the outside: a Bot API method or an SQL statement
\* status is the ChatMember.status a get_chat_member call returns ("" for the
\* other calls and for a call that raises)
Call(api, chat_id, message_id, text, media, caption, markup, title, owner, ok) ==
    [api |-> api, chat_id |-> chat_id, message_id |-> message_id, text |-> text,
     media |-> media, caption |-> caption, markup |-> markup, title |-> title,
     owner |-> owner, ok |-> ok, status |-> ""]

GetChatMember(cid, r) ==
    [Call("get_chat_member", cid, 0, <<>>, "", <<>>, <<>>, "", 0, r.error = "")
        EXCEPT !.status = r.status]
InsertChannel(cid, title, owner, ok) ==
    Call("insert_channel", cid, 0, <<>>, "", <<>>, <<>>, title, owner, ok)
DeleteChannel(cid) == Call("delete_channel", cid, 0, <<>>, "", <<>>, <<>>, "", 0, TRUE)

\* callback data: the command and the channel id that follows it (0 for none)
NoData == [cmd |-> "", arg |-> 0]

\* data is the callback data of the update, NoData for a command or a message
Outcome(op, user, replies, calls, exc) ==
    [op |-> op, user |-> user, replies |-> replies, calls |-> calls, exc |-> exc,
     data |-> NoData]

\* main.py error_handler: an exception that leaves a handler is logged and the
\* user is told that an error occurred
Raised(op, user, replies, calls, exc) ==
    Outcome(op, user, replies \o <<"error_occurred">>, calls, exc)

CallsOf(api) == SelectSeq(last.calls, LAMBDA c : c.api = api)

----------------------------------------------------------------------------
(* The new-post run: /post, select a listed channel c, New Post, a text message  *)
(* t, decline buttons, confirm, with no other update in between.  run.pos counts *)
(* the updates of the run handled so far; an update no handler answers or acts   *)
(* on is no update of the run.  The run is over with the update after its last.  *)

NoRun == [pos |-> 0, c |-> 0, t |-> <<>>]

Unanswered ==
    /\ last'.replies = <<>> /\ last'.calls = <<>> /\ last'.exc = ""
    /\ UNCHANGED <<WAITING_ADD_CHANNEL, USER_SESSION, channels, user_states, pb_channels>>

Track(data, m) ==
    IF Unanswered /\ run.pos \in 1..5 THEN run
    ELSE IF last'.user # OWNER_ID THEN NoRun
    ELSE IF last'.op = "post_handler" /\ last'.replies = <<"select_a_channel">>
    THEN [pos |-> 1, c |-> 0, t |-> <<>>]
    ELSE IF /\ run.pos = 1 /\ last'.op = "post_button_handler" /\ data.cmd = "post_ch_"
            /\ last'.replies = <<"channel_selected">>
            /\ channels[data.arg].owner_id = OWNER_ID
    THEN [pos |-> 2, c |-> data.arg, t |-> <<>>]
    ELSE IF /\ run.pos = 2 /\ last'.op = "post_button_handler" /\ data.cmd = "post_do_"
            /\ data.arg = run.c /\ last'.replies = <<"ready_to_post">>
    THEN [run EXCEPT !.pos = 3]
    ELSE IF /\ run.pos = 3 /\ last'.op = "user_message_handler" /\ m.kind = "text"
            /\ last'.replies = <<"content_received">>
    THEN [run EXCEPT !.pos = 4, !.t = m.text]
    ELSE IF run.pos = 4 /\ last'.op = "post_button_flow" /\ data.cmd = "addbtn_no"
    THEN [run EXCEPT !.pos = 5]
    ELSE IF run.pos = 5 /\ last'.op = "post_button_flow" /\ data.cmd = "sendpost_yes"
    THEN [run EXCEPT !.pos = 6]
    ELSE NoRun

----------------------------------------------------------------------------
(* The channel table: init_db.py and db_handler.py *)

\* CREATE TABLE IF NOT EXISTS channels (id, channel_id UNIQUE, channel_title, owner_id)
ChannelsColumns == {"id", "channel_id", "channel_title", "owner_id"}

\* the columns of the INSERT OR REPLACE of addch_forward_handler
InsertColumns == {"channel_id", "channel_title", "owner_id", "admin_id"}

\* Database.query on that statement: sqlite3 raises OperationalError when the
\* statement names a column the table does not have, and writes nothing
InsertAccepted == InsertColumns \subseteq ChannelsColumns

\* INSERT OR REPLACE keyed by the UNIQUE channel_id
Upsert(tbl, cid, title, owner) ==
    [tbl EXCEPT ![cid] = [channel_title |-> title, owner_id |-> owner]]

\* DELETE FROM channels WHERE channel_id = ?
DeleteRow(tbl, cid) == IF cid \in DOMAIN tbl THEN [tbl EXCEPT ![cid] = NoRow] ELSE tbl

\* SELECT channel_id, channel_title FROM channels WHERE owner_id = ?
RowsOf(tbl, user) == {c \in DOMAIN tbl : tbl[c] # NoRow /\ tbl[c].owner_id = user}

\* SELECT channel_title FROM channels WHERE channel_id = ?
HasRow(tbl, cid) == cid \in DOMAIN tbl /\ tbl[cid] # NoRow

----------------------------------------------------------------------------
(* get_chat_member: what the Bot API may answer *)

Statuses == {"administrator", "creator", "member", "left"}
\* status, can_post_messages (an attribute of an administrator only: getattr gives
\* False for the others), and the exception raised instead ("" if none)
LookupResults ==
    { [status |-> s, can_post |-> FALSE, error |-> ""] : s \in Statuses }
    \cup { [status |-> "administrator", can_post |-> TRUE, error |-> ""] }
    \cup { [status |-> "", can_post |-> FALSE, error |-> e] :
            e \in {"BadRequest: chat not found", "BadRequest", "Forbidden"} }
\* no lookup is made
NoLookup == [status |-> "", can_post |-> FALSE, error |-> "not called"]

----------------------------------------------------------------------------
(* addch.py: the registration flow *)

\* faulty variant of OriginChat: forward_origin.chat is looked at before forward_from
OriginChat_origin_before_user(m) ==
    IF m.forward_from_chat # NoChat THEN m.forward_from_chat
    ELSE IF m.forward_origin.present /\ m.forward_origin.chat # NoChat
         THEN m.forward_origin.chat
    ELSE IF m.forward_from THEN [id |-> 9, type |-> "", title |-> ""]
    ELSE NoChat

\* addch_forward_handler, the forward detection: the first of forward_from_chat,
\* forward_from, forward_origin.chat that is set (forward_from is a User: it has an
\* id, and neither type nor title)
OriginChat(m) ==
    IF m.forward_from_chat # NoChat THEN m.forward_from_chat
    ELSE IF m.forward_from THEN [id |-> 9, type |-> "", title |-> ""]
    ELSE IF m.forward_origin.present /\ m.forward_origin.chat # NoChat
         THEN m.forward_origin.chat
    ELSE NoChat

\* the outcome of the detection and validation of addch_forward_handler
Resolve(m) ==
    IF OriginChat(m) = NoChat
    THEN IF m.forward_sender_name # "" THEN "hidden_origin" ELSE "not_a_forward"
    ELSE IF OriginChat(m).type # "channel" THEN "wrong_source_type"
    ELSE IF OriginChat(m).id = 0 THEN "no_channel_id"
    ELSE "channel"

\* channel_title = getattr(origin_chat, "title", None) or "Unknown Channel"
ResolvedTitle(m) == IF OriginChat(m).title = "" THEN "Unknown Channel" ELSE OriginChat(m).title

\* the reply to a message the detection rejects
RejectReply(r) ==
    CASE r = "hidden_origin" -> "hides_channel_identity"
      [] r = "not_a_forward" -> "not_forwarded_from_channel"
      [] r = "wrong_source_type" -> "forward_from_channel_only"
      [] OTHER -> "cannot_read_channel_id"

\* faulty variant of IsAdminStatus: any member of the channel passes
IsAdminStatus_not_left(status) == status \in {"administrator", "creator", "member"}

\* bot_status.status not in ["administrator", "creator"]
IsAdminStatus(status) == status \in {"administrator", "creator"}

\* faulty variant of addch_handler: a second /addch of a waiting user ends the wait
addch_handler_toggles(u) ==
    /\ WAITING_ADD_CHANNEL' = IF u \in WAITING_ADD_CHANNEL THEN WAITING_ADD_CHANNEL \ {u}
                                                          ELSE WAITING_ADD_CHANNEL \cup {u}
    /\ last' = Outcome("addch_handler", u, <<"forward_prompt">>, <<>>, "")
    /\ UNCHANGED <<USER_SESSION, channels, user_states, pb_channels, inbound, suspended>>
    /\ run' = Track(NoData, NoMessage)

addch_handler(u) ==
    /\ WAITING_ADD_CHANNEL' = WAITING_ADD_CHANNEL \cup {u}
    /\ last' = Outcome("addch_handler", u, <<"forward_prompt">>, <<>>, "")
    /\ UNCHANGED <<USER_SESSION, channels, user_states, pb_channels, inbound, suspended>>
    /\ run' = Track(NoData, NoMessage)

\* faulty variant of addch_reject: a rejection ends the registration
addch_reject_pops(u, m) ==
    /\ last' = Outcome("addch_forward_handler", u, <<RejectReply(Resolve(m))>>, <<>>, "")
    /\ WAITING_ADD_CHANNEL' = WAITING_ADD_CHANNEL \ {u}
    /\ UNCHANGED channels

\* lines 56-79: the message is refused and the user keeps waiting
addch_reject(u, m) ==
    /\ last' = Outcome("addch_forward_handler", u, <<RejectReply(Resolve(m))>>, <<>>, "")
    /\ UNCHANGED <<WAITING_ADD_CHANNEL, channels>>

\* lines 84-94: the lookup raised, or the bot is no administrator of the channel
addch_denied(u, r, lookup) ==
    /\ last' = Outcome("addch_forward_handler", u,
                       <<IF r.error # "" THEN "cannot_access_channel" ELSE "not_an_admin">>,
                       <<lookup>>, "")
    /\ UNCHANGED <<WAITING_ADD_CHANNEL, channels>>

\* lines 99-111: the INSERT, then the pop and the success reply if it returned
addch_persist(u, cid, title, lookup) ==
    IF ~InsertAccepted
    THEN /\ last' = Raised("addch_forward_handler", u, <<>>,
                           <<lookup, InsertChannel(cid, title, u, FALSE)>>,
                           "OperationalError")
         /\ UNCHANGED <<WAITING_ADD_CHANNEL, channels>>
    ELSE /\ channels' = Upsert(channels, cid, title, u)
         /\ WAITING_ADD_CHANNEL' = WAITING_ADD_CHANNEL \ {u}
         /\ last' = Outcome("addch_forward_handler", u, <<"channel_added">>,
                            <<lookup, InsertChannel(cid, title, u, TRUE)>>, "")

addch_forward_handler(u, m, r) ==
    LET cid == OriginChat(m).id
        lookup == GetChatMember(cid, r)
    IN
    /\ UNCHANGED <<USER_SESSION, user_states, pb_channels, suspended>>
    /\ IF u \notin WAITING_ADD_CHANNEL
       THEN /\ last' = Outcome("addch_forward_handler", u, <<>>, <<>>, "")
            /\ UNCHANGED <<WAITING_ADD_CHANNEL, channels>>
       ELSE IF Resolve(m) # "channel" THEN addch_reject(u, m)
       ELSE IF r.error # "" \/ ~IsAdminStatus(r.status) THEN addch_denied(u, r, lookup)
       ELSE addch_persist(u, cid, ResolvedTitle(m), lookup)
    /\ run' = Track(NoData, m)

\* delch_button: "delch_cancel" deletes the menu, "delch_<id>" deletes the row
delch_button(u, data) ==
    /\ UNCHANGED <<WAITING_ADD_CHANNEL, USER_SESSION, user_states, pb_channels, inbound, suspended>>
    /\ IF data.cmd = "delch_cancel"
       THEN /\ last' = [Outcome("delch_button", u, <<"menu_deleted">>, <<>>, "")
                            EXCEPT !.data = data]
            /\ UNCHANGED channels
       ELSE /\ channels' = DeleteRow(channels, data.arg)
            /\ last' = [Outcome("delch_button", u, <<"channel_deleted">>,
                                <<DeleteChannel(data.arg)>>, "")
                            EXCEPT !.data = data]
    /\ run' = Track(data, NoMessage)

----------------------------------------------------------------------------
(* post_bot.py: the registration flow of the single-file variant *)

\* add_channel_command: admin only
add_channel_command(u) ==
    /\ UNCHANGED <<WAITING_ADD_CHANNEL, USER_SESSION, channels, pb_channels, inbound, suspended>>
    /\ IF u \notin Admins
       THEN /\ last' = Outcome("add_channel_command", u, <<"admin_access_required">>, <<>>, "")
            /\ UNCHANGED user_states
       ELSE /\ user_states' = (u :> "awaiting_channel_forward") @@ user_states
            /\ last' = Outcome("add_channel_command", u, <<"forward_prompt">>, <<>>, "")
    /\ run' = Track(NoData, NoMessage)

\* add_admin_command: owner only; it moves the user to another state
add_admin_command(u) ==
    /\ UNCHANGED <<WAITING_ADD_CHANNEL, USER_SESSION, channels, pb_channels, inbound, suspended>>
    /\ IF u # OWNER_ID
       THEN /\ last' = Outcome("add_admin_command", u, <<"owner_access_required">>, <<>>, "")
            /\ UNCHANGED user_states
       ELSE /\ user_states' = (u :> "awaiting_admin_username") @@ user_states
            /\ last' = Outcome("add_admin_command", u, <<"send_admin_id">>, <<>>, "")
    /\ run' = Track(NoData, NoMessage)

\* user_id in user_states and user_states[user_id] == AWAITING_CHANNEL_FORWARD
pb_Awaiting(u) == u \in DOMAIN user_states /\ user_states[u] = "awaiting_channel_forward"

\* forward_handler accepts forward_from_chat of type channel only
pb_IsChannelForward(m) == m.forward_from_chat # NoChat /\ m.forward_from_chat.type = "channel"

\* Database.add_channel: data["channels"][str(chat_id)] = ...
pb_add_channel(tbl, cid, title) == (cid :> title) @@ tbl

forward_handler(u, m, r) ==
    LET cid == m.forward_from_chat.id
        lookup == GetChatMember(cid, r)
        op == "forward_handler"
    IN
    /\ UNCHANGED <<WAITING_ADD_CHANNEL, USER_SESSION, channels, inbound, suspended>>
    /\ IF ~pb_Awaiting(u)
       THEN /\ last' = Outcome(op, u, <<>>, <<>>, "")
            /\ UNCHANGED <<user_states, pb_channels>>
       ELSE IF ~pb_IsChannelForward(m)
       THEN /\ last' = Outcome(op, u, <<"forward_from_a_channel">>, <<>>, "")
            /\ UNCHANGED <<user_states, pb_channels>>
       ELSE IF r.error = "BadRequest: chat not found"
       THEN /\ last' = Outcome(op, u, <<"bot_not_a_member">>, <<lookup>>, "")
            /\ UNCHANGED <<user_states, pb_channels>>
       ELSE IF r.error # ""
       THEN /\ last' = Outcome(op, u, <<"error_verifying_channel">>, <<lookup>>, "")
            /\ UNCHANGED <<user_states, pb_channels>>
       ELSE IF ~IsAdminStatus(r.status)
       THEN /\ last' = Outcome(op, u, <<"bot_must_be_admin">>, <<lookup>>, "")
            /\ UNCHANGED <<user_states, pb_channels>>
       ELSE IF ~r.can_post
       THEN /\ last' = Outcome(op, u, <<"no_post_permission">>, <<lookup>>, "")
            /\ UNCHANGED <<user_states, pb_channels>>
       ELSE /\ pb_channels' = pb_add_channel(pb_channels, cid, m.forward_from_chat.title)
            /\ user_states' = [v \in DOMAIN user_states \ {u} |-> user_states[v]]
            /\ last' = Outcome(op, u, <<"channel_added">>,
                               <<lookup, InsertChannel(cid, m.forward_from_chat.title, u, TRUE)>>,
                               "")
    /\ run' = Track(NoData, m)

----------------------------------------------------------------------------
(* post.py: sessions *)

\* a dict is a function on its keys; {} is the function on no key
EmptyDict == <<>>
HasKey(d, k) == k \in DOMAIN d
\* d[k] = v
SetKey(d, k, v) == (k :> v) @@ d

HasSession(S, u) == u \in DOMAIN S

\* clean_session: del USER_SESSION[user_id] if it is there
clean_session(S, u) == [v \in DOMAIN S \ {u} |-> S[v]]

\* USER_SESSION.setdefault(user_id, {})
setdefault(S, u) == IF HasSession(S, u) THEN S ELSE (u :> EmptyDict) @@ S

\* USER_SESSION[user_id] = d, and session[k] = v on the stored dict
StoreSession(S, u, d) == (u :> d) @@ S
SetField(S, u, k, v) == StoreSession(S, u, SetKey(S[u], k, v))

\* faulty variant of NewSession: the title of the channel is not recorded
NewSession_without_title(step, mode, cid, title, page) ==
    [step |-> step, mode |-> mode, channel_id |-> cid, channel_title |-> "",
     message |-> NoMessage, edit_target |-> 0, buttons |-> <<>>, page |-> page]

\* the dict post_do_ and edit_do_ store
NewSession(step, mode, cid, title, page) ==
    [step |-> step, mode |-> mode, channel_id |-> cid, channel_title |-> title,
     message |-> NoMessage, edit_target |-> 0, buttons |-> <<>>, page |-> page]

\* what a step of a handler leaves: the sessions, the replies, the calls, the exception
Res(S, replies, calls, exc) == [sess |-> S, replies |-> replies, calls |-> calls, exc |-> exc]

\* send_channel_page: lists the caller's channels; with none, says so and drops the session
send_channel_page(S, u) ==
    IF ~HasKey(S[u], "page") THEN Res(S, <<>>, <<>>, "KeyError: page")
    ELSE IF RowsOf(channels, u) = {}
    THEN Res(clean_session(S, u), <<"no_channels_saved">>, <<>>, "")
    ELSE Res(S, <<"select_a_channel">>, <<>>, "")

\* faulty variant of post_handler_result: /post of any user starts a session
post_handler_result_any_user(S, u) ==
    send_channel_page(
        SetField(SetField(setdefault(S, u), u, "step", "select_channel"), u, "page", 0), u)

\* post_handler: /post
post_handler_result(S, u) ==
    IF u # OWNER_ID THEN Res(S, <<"not_allowed_command">>, <<>>, "")
    ELSE send_channel_page(
             SetField(SetField(setdefault(S, u), u, "step", "select_channel"), u, "page", 0), u)

\* post_button_handler: pagination, channel selection, start of post and edit mode
post_button_handler_result(S, u, data) ==
    LET S1 == setdefault(S, u)
        session == S1[u]
        cid == data.arg
    IN
    IF u # OWNER_ID THEN Res(clean_session(S, u), <<"not_allowed_feature">>, <<>>, "")
    ELSE IF data.cmd \in {"page_next", "page_back"}
    THEN IF ~HasKey(session, "page") THEN Res(S1, <<>>, <<>>, "KeyError: page")
         ELSE send_channel_page(
                  SetField(S1, u, "page",
                           session["page"] + (IF data.cmd = "page_next" THEN 1 ELSE 0 - 1)), u)
    ELSE IF data.cmd = "page_refresh" THEN send_channel_page(S1, u)
    ELSE IF data.cmd = "post_close"
    THEN Res(clean_session(S1, u), <<"menu_deleted">>, <<>>, "")
    ELSE IF data.cmd = "post_ch_"
    THEN IF ~HasRow(channels, cid)
         THEN Res(clean_session(S1, u), <<"channel_not_found">>, <<>>, "")
         ELSE Res(S1, <<"channel_selected">>, <<>>, "")
    ELSE IF data.cmd \in {"post_do_", "edit_do_"}
    THEN IF ~HasRow(channels, cid) THEN Res(S1, <<>>, <<>>, "IndexError")
         ELSE LET page == IF HasKey(session, "page") THEN session["page"] ELSE 0
                  title == channels[cid].channel_title
              IN IF data.cmd = "post_do_"
                 THEN Res(StoreSession(S1, u, NewSession("await_message", "post", cid, title, page)),
                          <<"ready_to_post">>, <<>>, "")
                 ELSE Res(StoreSession(S1, u, NewSession("await_edit_forward", "edit", cid, title, page)),
                          <<"edit_mode">>, <<>>, "")
    ELSE Res(S1, <<>>, <<>>, "")

\* faulty variant of await_edit_forward: a forward of any channel is taken
await_edit_forward_any_channel(S, u, m) ==
    IF m.forward_from_chat = NoChat
    THEN Res(S, <<"forward_the_original">>, <<>>, "")
    ELSE Res(SetField(SetField(S, u, "edit_target", m.forward_from_message_id),
                      u, "step", "await_edit_newcontent"),
             <<"original_captured">>, <<>>, "")

\* user_message_handler at step await_edit_forward: the forward of the post to edit
await_edit_forward(S, u, m) ==
    IF m.forward_from_chat = NoChat
    THEN Res(S, <<"forward_the_original">>, <<>>, "")
    ELSE IF m.forward_from_chat.id # S[u]["channel_id"]
    THEN Res(S, <<"not_from_target_channel">>, <<>>, "")
    ELSE Res(SetField(SetField(S, u, "edit_target", m.forward_from_message_id),
                      u, "step", "await_edit_newcontent"),
             <<"original_captured">>, <<>>, "")

\* faulty variant of store_content: the edit target is lost with the new content
store_content_drops_target(S, u, m) ==
    Res(SetField(SetField(SetField(S, u, "message", m), u, "edit_target", 0),
                 u, "step", "add_button_q"),
        <<"content_received">>, <<>>, "")

\* user_message_handler at steps await_edit_newcontent and await_message: the content
store_content(S, u, m) ==
    Res(SetField(SetField(S, u, "message", m), u, "step", "add_button_q"),
        <<"content_received">>, <<>>, "")

\* user_message_handler: the forward to edit, and the content
user_message_handler_result(S, u, m) ==
    LET session == S[u] IN
    IF u # OWNER_ID \/ ~HasSession(S, u) THEN Res(S, <<>>, <<>>, "")
    ELSE IF ~HasKey(session, "step") THEN Res(S, <<>>, <<>>, "KeyError: step")
    ELSE IF session["step"] = "await_edit_forward" THEN await_edit_forward(S, u, m)
    ELSE IF session["step"] \in {"await_edit_newcontent", "await_message"}
    THEN store_content(S, u, m)
    ELSE Res(S, <<>>, <<>>, "")

----------------------------------------------------------------------------
(* post.py: the button mini-language of button_format_handler *)

Dash == <<" ", "-", " ">>
AlertColon == <<"a", "l", "e", "r", "t", ":">>
ColonAlertColon == <<":", "a", "l", "e", "r", "t", ":">>
ColonSame == <<":", "s", "a", "m", "e">>

\* InlineKeyboardButton(text, url=...) and InlineKeyboardButton(text, callback_data=...)
UrlButton(label, url) == [text |-> label, url |-> url, callback_data |-> <<>>]
CallbackButton(label, data) == [text |-> label, url |-> <<>>, callback_data |-> data]

\* buttons[-1].append(b)
AppendToLastRow(buttons, b) == [buttons EXCEPT ![Len(buttons)] = Append(@, b)]

\* sum(len(row) for row in buttons)
RECURSIVE ButtonCount(_)
ButtonCount(buttons) ==
    IF buttons = <<>> THEN 0 ELSE Len(Head(buttons)) + ButtonCount(Tail(buttons))

Parsed(buttons, reply, added) == [buttons |-> buttons, reply |-> reply, added |-> added]

\* the try block of button_format_handler on update.message.text and session["buttons"]
ParseButton(text, buttons) ==
    LET raw == Strip(text)
        parts == Split1(raw, Dash)
        same == Split1(Remove(raw, ColonSame), Dash)
    IN
    IF Contains(raw, Dash) /\ ~Contains(raw, AlertColon)
    THEN IF Contains(raw, ColonSame)
         THEN IF Len(same) # 2 THEN Parsed(buttons, "error_parsing_button", FALSE)
              ELSE IF buttons = <<>>
              THEN Parsed(<<<<UrlButton(Strip(same[1]), Strip(same[2]))>>>>,
                          "url_button_added_to_row", TRUE)
              ELSE Parsed(AppendToLastRow(buttons, UrlButton(Strip(same[1]), Strip(same[2]))),
                          "url_button_added_to_row", TRUE)
         ELSE Parsed(Append(buttons, <<UrlButton(Strip(parts[1]), Strip(parts[2]))>>),
                     "url_button_added", TRUE)
    ELSE IF Contains(raw, ColonAlertColon)
    THEN IF Len(parts) # 2 THEN Parsed(buttons, "error_parsing_button", FALSE)
         ELSE IF Contains(parts[2], ColonAlertColon)
         THEN IF Len(Split(parts[2], ColonAlertColon)) # 2
              THEN Parsed(buttons, "error_parsing_button", FALSE)
              ELSE Parsed(Append(buttons,
                                 <<CallbackButton(Strip(parts[1]),
                                       AlertColon \o Strip(Split(parts[2], ColonAlertColon)[1]))>>),
                          "alert_button_added", TRUE)
         ELSE Parsed(buttons, "invalid_alert_format", FALSE)
    ELSE Parsed(buttons, "invalid_format", FALSE)

\* faulty variant of button_error: the error leads back to the button choice
button_error_leaves_step(S, u, reply) ==
    Res(SetField(S, u, "step", "add_button_q"), <<reply>>, <<>>, "")

\* button_format_handler, a line that is not taken: the error is replied and the
\* handler returns
button_error(S, u, reply) == Res(S, <<reply>>, <<>>, "")

\* faulty variant of button_format_handler_result: a user without a session is answered
button_format_handler_result_answers_all(S, u, m) ==
    LET session == S[u]
        p == ParseButton(m.text, session["buttons"])
    IN
    IF ~HasSession(S, u) THEN Res(S, <<"invalid_format">>, <<>>, "")
    ELSE IF ~HasKey(session, "step") THEN Res(S, <<>>, <<>>, "KeyError: step")
    ELSE IF session["step"] # "await_button_format" THEN Res(S, <<>>, <<>>, "")
    ELSE IF ~HasKey(session, "buttons") THEN Res(S, <<>>, <<>>, "KeyError: buttons")
    ELSE IF ~p.added THEN Res(S, <<p.reply>>, <<>>, "")
    ELSE Res(SetField(S, u, "buttons", p.buttons), <<p.reply, "buttons_added">>, <<>>, "")

\* button_format_handler
button_format_handler_result(S, u, m) ==
    LET session == S[u]
        p == ParseButton(m.text, session["buttons"])
    IN
    IF ~HasSession(S, u) THEN Res(S, <<>>, <<>>, "")
    ELSE IF ~HasKey(session, "step") THEN Res(S, <<>>, <<>>, "KeyError: step")
    ELSE IF session["step"] # "await_button_format" THEN Res(S, <<>>, <<>>, "")
    ELSE IF ~HasKey(session, "buttons") THEN Res(S, <<>>, <<>>, "KeyError: buttons")
    ELSE IF ~p.added THEN button_error(S, u, p.reply)
    ELSE Res(SetField(S, u, "buttons", p.buttons), <<p.reply, "buttons_added">>, <<>>, "")

\* faulty variant of clear_buttons_handler_result: the flow goes back to the button choice
clear_buttons_handler_result_resets_step(S, u, data) ==
    IF ~HasSession(S, u) THEN Res(S, <<>>, <<>>, "")
    ELSE IF data.cmd = "clear_buttons"
    THEN Res(SetField(SetField(S, u, "buttons", <<>>), u, "step", "add_button_q"),
             <<"buttons_cleared">>, <<>>, "")
    ELSE Res(S, <<>>, <<>>, "")

\* clear_buttons_handler
clear_buttons_handler_result(S, u, data) ==
    IF ~HasSession(S, u) THEN Res(S, <<>>, <<>>, "")
    ELSE IF data.cmd = "clear_buttons"
    THEN Res(SetField(S, u, "buttons", <<>>), <<"buttons_cleared">>, <<>>, "")
    ELSE Res(S, <<>>, <<>>, "")

----------------------------------------------------------------------------
(* post.py: post_button_flow *)

\* faulty variant of SendCalls: send_message is given the caption as its text
SendCalls_caption_for_text(msg, cid, markup, ok) ==
    IF msg.kind = "photo"
    THEN <<Call("send_photo", cid, 0, <<>>, msg.file_id, msg.caption, markup, "", 0, ok)>>
    ELSE IF msg.kind = "video"
    THEN <<Call("send_video", cid, 0, <<>>, msg.file_id, msg.caption, markup, "", 0, ok)>>
    ELSE IF msg.kind = "document"
    THEN <<Call("send_document", cid, 0, <<>>, msg.file_id, msg.caption, markup, "", 0, ok)>>
    ELSE <<Call("send_message", cid, 0, msg.caption, "", <<>>, markup, "", 0, ok)>>

\* the POST MODE branch of sendpost_yes: one send call by the kind of the message
SendCalls(msg, cid, markup, ok) ==
    IF msg.kind = "photo"
    THEN <<Call("send_photo", cid, 0, <<>>, msg.file_id, msg.caption, markup, "", 0, ok)>>
    ELSE IF msg.kind = "video"
    THEN <<Call("send_video", cid, 0, <<>>, msg.file_id, msg.caption, markup, "", 0, ok)>>
    ELSE IF msg.kind = "document"
    THEN <<Call("send_document", cid, 0, <<>>, msg.file_id, msg.caption, markup, "", 0, ok)>>
    ELSE <<Call("send_message", cid, 0, msg.text, "", <<>>, markup, "", 0, ok)>>

\* the EDIT MODE branch of sendpost_yes: an if/elif chain without else
EditCalls(msg, cid, target, markup, ok) ==
    IF msg.text # <<>>
    THEN <<Call("edit_message_text", cid, target, msg.text, "", <<>>, markup, "", 0, ok)>>
    ELSE IF msg.kind \in {"photo", "video", "document"}
    THEN <<Call("edit_message_media", cid, target, <<>>, msg.file_id, msg.caption, markup,
                "", 0, ok)>>
    ELSE <<>>

\* the Bot API call of the sendpost_yes branch for the session and its message;
\* <<>> when the branch calls nothing.  ok: whether Telegram accepts the call.
DispatchCalls(session, ok) ==
    IF session["mode"] = "edit"
    THEN EditCalls(session["message"], session["channel_id"], session["edit_target"],
                   session["buttons"], ok)
    ELSE IF session["mode"] = "post"
    THEN SendCalls(session["message"], session["channel_id"], session["buttons"], ok)
    ELSE <<>>

\* Telegram refuses a message without text and an edit without a message id
Refused(session) ==
    \/ session["mode"] = "edit" /\ session["edit_target"] = 0
    \/ session["mode"] = "post" /\ session["message"].kind \in {"text", "other"}
                                /\ session["message"].text = <<>>

\* the try block of the sendpost_yes branch and its except clause: the replies
\* after "Processing..." and the calls
confirm_try(session, ok) ==
    LET calls == DispatchCalls(session, ok /\ ~Refused(session)) IN
    IF ~HasKey(session, "mode") \/ session["message"] = NoMessage
    THEN [replies |-> <<"error_occurred_check">>, calls |-> <<>>]
    ELSE IF calls # <<>> /\ ~calls[1].ok
    THEN [replies |-> <<"error_occurred_check">>, calls |-> calls]
    ELSE IF session["mode"] = "edit"
    THEN [replies |-> <<"edited_successfully">>, calls |-> calls]
    ELSE IF session["mode"] = "post"
    THEN [replies |-> <<"sent_successfully">>, calls |-> calls]
    ELSE [replies |-> <<>>, calls |-> calls]

\* faulty variant of confirm_send: clean_session inside the try block, skipped when
\* the except clause runs
confirm_send_cleans_in_try(S, u, ok) ==
    LET t == confirm_try(S[u], ok) IN
    Res(IF t.replies = <<"error_occurred_check">> THEN S ELSE clean_session(S, u),
        <<"processing">> \o t.replies, t.calls, "")

\* the sendpost_yes branch: "Processing...", the try block, then clean_session
confirm_send(S, u, ok) ==
    LET t == confirm_try(S[u], ok) IN
    Res(clean_session(S, u), <<"processing">> \o t.replies, t.calls, "")

\* faulty variant of change_content: the buttons of the old content are kept
change_content_keeps_buttons(S, u) ==
    IF ~HasKey(S[u], "mode") THEN Res(S, <<>>, <<>>, "KeyError: mode")
    ELSE Res(SetField(S, u, "step",
                      IF S[u]["mode"] = "post" THEN "await_message"
                      ELSE "await_edit_newcontent"),
             <<"send_new_content">>, <<>>, "")

\* post_button_flow, change_content: back to the content step of the mode, without buttons
change_content(S, u) ==
    IF ~HasKey(S[u], "mode") THEN Res(S, <<>>, <<>>, "KeyError: mode")
    ELSE Res(SetField(SetField(S, u, "step",
                               IF S[u]["mode"] = "post" THEN "await_message"
                               ELSE "await_edit_newcontent"),
                      u, "buttons", <<>>),
             <<"send_new_content">>, <<>>, "")

post_button_flow_result(S, u, data, ok) ==
    LET session == S[u] IN
    IF ~HasSession(S, u) THEN Res(S, <<"session_expired">>, <<>>, "")
    ELSE IF ~HasKey(session, "message") THEN Res(S, <<>>, <<>>, "KeyError: message")
    ELSE IF ~HasKey(session, "buttons") THEN Res(S, <<>>, <<>>, "KeyError: buttons")
    ELSE IF data.cmd = "addbtn_yes"
    THEN Res(SetField(S, u, "step", "await_button_format"), <<"add_button_formats">>, <<>>, "")
    ELSE IF data.cmd = "addbtn_no"
    THEN IF session["message"] = NoMessage
         THEN Res(SetField(S, u, "step", "send_post_q"), <<>>, <<>>, "AttributeError")
         ELSE IF ~HasKey(session, "mode")
         THEN Res(SetField(S, u, "step", "send_post_q"), <<>>, <<>>, "KeyError: mode")
         ELSE Res(SetField(S, u, "step", "send_post_q"), <<"ready_to_send">>, <<>>, "")
    ELSE IF data.cmd = "change_content" THEN change_content(S, u)
    ELSE IF data.cmd = "sendpost_yes" THEN confirm_send(S, u, ok)
    ELSE Res(S, <<>>, <<>>, "")

----------------------------------------------------------------------------
(* post.py: the handlers as actions *)

\* the state a handler of post.py leaves, from the result of its body
Handled(op, u, res, data, m) ==
    /\ USER_SESSION' = res.sess
    /\ last' = [(IF res.exc = "" THEN Outcome(op, u, res.replies, res.calls, "")
                 ELSE Raised(op, u, res.replies, res.calls, res.exc))
                    EXCEPT !.data = data]
    /\ UNCHANGED <<WAITING_ADD_CHANNEL, channels, user_states, pb_channels, inbound, suspended>>
    /\ run' = Track(data, m)

post_handler(u) ==
    Handled("post_handler", u, post_handler_result(USER_SESSION, u), NoData, NoMessage)

post_button_handler(u, data) ==
    Handled("post_button_handler", u, post_button_handler_result(USER_SESSION, u, data),
            data, NoMessage)

user_message_handler(u, m) ==
    Handled("user_message_handler", u, user_message_handler_result(USER_SESSION, u, m),
            NoData, m)

post_button_flow(u, data, ok) ==
    Handled("post_button_flow", u, post_button_flow_result(USER_SESSION, u, data, ok),
            data, NoMessage)

button_format_handler(u, m) ==
    Handled("button_format_handler", u, button_format_handler_result(USER_SESSION, u, m),
            NoData, m)

clear_buttons_handler(u, data) ==
    Handled("clear_buttons_handler", u, clear_buttons_handler_result(USER_SESSION, u, data),
            data, NoMessage)

----------------------------------------------------------------------------
(* Initial state *)

NoOutcome == Outcome("", 0, <<>>, <<>>, "")

\* the table when the process starts: a channel of the owner and a channel of
\* another user, registered before; delch_button reaches the tables with fewer rows
StoredChannels ==
    [c \in ChannelIds |->
        [channel_title |-> TitleOf(c),
         owner_id |-> IF c = ChannelA THEN OWNER_ID ELSE OWNER_ID + 1]]

Init ==
    /\ WAITING_ADD_CHANNEL = {}
    /\ USER_SESSION = EmptyDict
    /\ channels = StoredChannels
    /\ user_states = EmptyDict
    /\ pb_channels = EmptyDict
    /\ last = NoOutcome
    /\ run = NoRun
    /\ inbound = NoMessage
    /\ suspended = {}

----------------------------------------------------------------------------
(* The updates the specifications draw from *)

UrlLine == <<"G", " ", "-", " ", "h", "t", "t", "p", ":", "/", "/", "e">>

\* messages of the post flow: texts, media, a sticker, forwards of both channels
\* and a forward that carries forward_origin only
CoreMessages ==
    {TextMsg(Hello), TextMsg(UrlLine),
     Plain("photo", <<>>, Hello, "P1"), Plain("video", <<>>, <<>>, "V1"),
     Plain("document", <<>>, <<>>, "D1"), Plain("other", <<>>, <<>>, ""),
     ForwardOf(ChannelA, 7), ForwardOf(ChannelB, 7),
     Msg("text", Hello, <<>>, "", NoChat, FALSE, Origin(ChannelChat(ChannelA)), "", 7)}

\* filters.TEXT
TextMessages(M) == {m \in M : m.text # <<>>}

Data(cmd) == [cmd |-> cmd, arg |-> 0]
ChannelData(cmd) == {[cmd |-> cmd, arg |-> c] : c \in ChannelIds}

\* callback data by the pattern of the handler that takes it
\* ^(post_ch_|page_|post_do_|edit_do_)
PostButtonData ==
    {Data("page_refresh")}
    \cup ChannelData("post_ch_") \cup ChannelData("post_do_") \cup ChannelData("edit_do_")
\* ^(addbtn_|sendpost_|change_content)
FlowData == {Data("addbtn_yes"), Data("addbtn_no"), Data("sendpost_yes"), Data("change_content")}
\* ^clear_buttons
ClearData == {Data("clear_buttons")}
\* ^delch_
DelchData == {Data("delch_cancel")} \cup ChannelData("delch_")

\* a draft is followed up to MaxButtons buttons
ButtonsFollowed(u) ==
    HasSession(USER_SESSION, u) /\ HasKey(USER_SESSION[u], "buttons")
        => ButtonCount(USER_SESSION[u]["buttons"]) < MaxButtons

\* whether the sendpost_yes branch reaches a Bot API call, whose result Telegram decides
Dispatches(u, d) ==
    /\ d.cmd = "sendpost_yes"
    /\ HasSession(USER_SESSION, u)
    /\ {"message", "buttons", "mode"} \subseteq DOMAIN USER_SESSION[u]
    /\ USER_SESSION[u]["message"] # NoMessage
    /\ DispatchCalls(USER_SESSION[u], TRUE) # <<>>
    /\ ~Refused(USER_SESSION[u])

AddchCommand == \E u \in Users : addch_handler(u)
DelchCallback == \E u \in Users, d \in DelchData : delch_button(u, d)
PostCommand == \E u \in Users : post_handler(u)
PostButtonCallback ==
    \E u \in Users, d \in PostButtonData : post_button_handler(u, d)
UserMessage == \E u \in Users, m \in CoreMessages : user_message_handler(u, m)
FlowCallback ==
    \E u \in Users, d \in FlowData :
        \E ok \in IF Dispatches(u, d) THEN BOOLEAN ELSE {FALSE} : post_button_flow(u, d, ok)
ButtonFormatMessage ==
    \E u \in Users, m \in TextMessages(CoreMessages) :
        ButtonsFollowed(u) /\ button_format_handler(u, m)
ClearButtonsCallback == \E u \in Users, d \in ClearData : clear_buttons_handler(u, d)

Next ==
    \/ DelchCallback
    \/ PostCommand
    \/ PostButtonCallback
    \/ UserMessage
    \/ FlowCallback
    \/ ButtonFormatMessage
    \/ ClearButtonsCallback

Spec == Init /\ [][Next]_vars

----------------------------------------------------------------------------
(* The registration flows of addch.py and post_bot.py, on every combination *)
(* of forward fields                                                        *)

\* the lookup answers only when the handler reaches get_chat_member
AddchLookups(u, m) ==
    IF u \in WAITING_ADD_CHANNEL /\ Resolve(m) = "channel" THEN LookupResults ELSE {NoLookup}

AddchMessage ==
    \E u \in Users, m \in RegistrationMessages :
        \E r \in AddchLookups(u, m) : addch_forward_handler(u, m, r) /\ UNCHANGED inbound
PbAddChannelCommand == \E u \in Users : add_channel_command(u)
PbAddAdminCommand == \E u \in Users : add_admin_command(u)
\* filters.FORWARDED: the message carries a forward origin of some kind
IsForwarded(m) ==
    \/ m.forward_from_chat # NoChat
    \/ m.forward_from
    \/ m.forward_origin.present
    \/ m.forward_sender_name # ""

PbForwardMessage ==
    \E u \in Users, m \in {x \in RegistrationMessages : IsForwarded(x)} :
        \E r \in IF pb_Awaiting(u) /\ pb_IsChannelForward(m)
                 THEN LookupResults ELSE {NoLookup} :
            forward_handler(u, m, r)

NextReg ==
    \/ AddchCommand
    \/ AddchMessage
    \/ PbAddChannelCommand
    \/ PbAddAdminCommand
    \/ PbForwardMessage

SpecReg == Init /\ [][NextReg]_vars

----------------------------------------------------------------------------
(* The forward detection of addch.py alone, with the message it was applied *)
(* to kept in inbound                                                       *)

ResolveMessage ==
    \E u \in Users, m \in RegistrationMessages :
        \E r \in AddchLookups(u, m) : addch_forward_handler(u, m, r) /\ inbound' = m

NextResolver ==
    \/ AddchCommand
    \/ ResolveMessage

SpecResolver == Init /\ [][NextResolver]_vars

----------------------------------------------------------------------------
(* /addch and /post side by side: the commands that start a flow and the    *)
(* updates that follow them                                                 *)

FlowAddchMessage ==
    \E u \in Users, m \in CoreMessages :
        \E r \in AddchLookups(u, m) : addch_forward_handler(u, m, r) /\ UNCHANGED inbound

NextFlows ==
    \/ AddchCommand
    \/ FlowAddchMessage
    \/ PostCommand
    \/ PostButtonCallback
    \/ UserMessage
    \/ ButtonFormatMessage

SpecFlows == Init /\ [][NextFlows]_vars

----------------------------------------------------------------------------
(* Callback queries against the patterns post_module registers *)

\* the text of callback data up to the channel id
DataText(cmd) ==
    CASE cmd = "page_next" -> <<"p", "a", "g", "e", "_", "n", "e", "x", "t">>
      [] cmd = "page_back" -> <<"p", "a", "g", "e", "_", "b", "a", "c", "k">>
      [] cmd = "page_refresh" -> <<"p", "a", "g", "e", "_", "r", "e", "f", "r", "e", "s", "h">>
      [] cmd = "post_close" -> <<"p", "o", "s", "t", "_", "c", "l", "o", "s", "e">>
      [] cmd = "post_ch_" -> <<"p", "o", "s", "t", "_", "c", "h", "_">>
      [] cmd = "post_do_" -> <<"p", "o", "s", "t", "_", "d", "o", "_">>
      [] cmd = "edit_do_" -> <<"e", "d", "i", "t", "_", "d", "o", "_">>
      [] cmd = "addbtn_yes" -> <<"a", "d", "d", "b", "t", "n", "_", "y", "e", "s">>
      [] cmd = "addbtn_no" -> <<"a", "d", "d", "b", "t", "n", "_", "n", "o">>
      [] cmd = "sendpost_yes" -> <<"s", "e", "n", "d", "p", "o", "s", "t", "_", "y", "e", "s">>
      [] cmd = "change_content" ->
             <<"c", "h", "a", "n", "g", "e", "_", "c", "o", "n", "t", "e", "n", "t">>
      [] cmd = "clear_buttons" ->
             <<"c", "l", "e", "a", "r", "_", "b", "u", "t", "t", "o", "n", "s">>
      [] cmd = "alert:" -> AlertColon
      [] OTHER -> <<>>

\* ^(post_ch_|page_|post_do_|edit_do_)
PostButtonPattern ==
    {DataText("post_ch_"), <<"p", "a", "g", "e", "_">>, DataText("post_do_"), DataText("edit_do_")}
\* ^(addbtn_|sendpost_|change_content)
FlowPattern ==
    {<<"a", "d", "d", "b", "t", "n", "_">>, <<"s", "e", "n", "d", "p", "o", "s", "t", "_">>,
     DataText("change_content")}
\* ^clear_buttons
ClearPattern == {DataText("clear_buttons")}

\* re.match of an alternation of literals anchored at the start
PatternMatches(alts, data) == \E p \in alts : MatchAt(DataText(data.cmd), p, 1)

\* a callback query no pattern takes: no handler runs, nothing is answered
unhandled_callback(u, data) ==
    /\ last' = [Outcome("", u, <<>>, <<>>, "") EXCEPT !.data = data]
    /\ UNCHANGED <<WAITING_ADD_CHANNEL, USER_SESSION, channels, user_states, pb_channels,
                   inbound, suspended>>
    /\ run' = Track(data, NoMessage)

\* the callback query handlers of post_module, each behind its pattern
post_module_callback(u, data) ==
    IF PatternMatches(PostButtonPattern, data) THEN post_button_handler(u, data)
    ELSE IF PatternMatches(FlowPattern, data)
    THEN \E ok \in IF Dispatches(u, data) THEN BOOLEAN ELSE {FALSE} :
             post_button_flow(u, data, ok)
    ELSE IF PatternMatches(ClearPattern, data) THEN clear_buttons_handler(u, data)
    ELSE unhandled_callback(u, data)

----------------------------------------------------------------------------
(* The channel menu: /post, the page buttons, Cancel, the choice of a channel *)
(* and of a mode                                                             *)

\* the buttons under the channel list: Previous, Next, Refresh
PageData == {Data("page_next"), Data("page_back"), Data("page_refresh")}

\* the page is followed MaxPage steps to either side
PageFollowed(u, d) ==
    (HasSession(USER_SESSION, u) /\ HasKey(USER_SESSION[u], "page"))
        => /\ d.cmd = "page_next" => USER_SESSION[u]["page"] < MaxPage
           /\ d.cmd = "page_back" => USER_SESSION[u]["page"] > 0 - MaxPage

PageCallback ==
    \E u \in Users, d \in PageData : PageFollowed(u, d) /\ post_module_callback(u, d)
\* the Cancel button of the menus
CloseCallback == \E u \in Users : post_module_callback(u, Data("post_close"))

NextMenu ==
    \/ DelchCallback
    \/ PostCommand
    \/ PostButtonCallback
    \/ PageCallback
    \/ CloseCallback

SpecMenu == Init /\ [][NextMenu]_vars

----------------------------------------------------------------------------
(* The button step: the owner starts a post, asks for buttons and sends lines *)
(* of every shape the parser tells apart                                     *)

UrlE == <<"h", "t", "t", "p", ":", "/", "/", "e">>
HiAlert == <<"H", "i", ":", "a", "l", "e", "r", "t">>

\* "G - x": a target that is no URL
PlainTargetLine == <<"G">> \o Dash \o <<"x">>
\* "S - http://e:same"
SameLine == <<"S">> \o Dash \o UrlE \o ColonSame
\* "a:same - http://e": ":same" elsewhere than at the end of the target
InnerSameLine == <<"a">> \o ColonSame \o Dash \o UrlE
\* ":same - http://e"
NoLabelLine == ColonSame \o Dash \o UrlE
\* "G - Hi:alert:true", "G - Hi:alert:no", "G - Hi:alert:", "G - Hi:alert"
AlertTrueLine == <<"G">> \o Dash \o HiAlert \o <<":", "t", "r", "u", "e">>
AlertFalseLine == <<"G">> \o Dash \o HiAlert \o <<":", "n", "o">>
AlertEmptyFlagLine == <<"G">> \o Dash \o HiAlert \o <<":">>
AlertNoFlagLine == <<"G">> \o Dash \o HiAlert
\* "Hi:alert:true": alert syntax without the delimiter
AlertNoDashLine == HiAlert \o <<":", "t", "r", "u", "e">>
\* "Hi:alert: - x": the alert form in the label
AlertInLabelLine == HiAlert \o <<":">> \o Dash \o <<"x">>
\* "A - http://e\nB - http://e": two lines in one message
TwoLines == <<"A">> \o Dash \o UrlE \o <<"\n", "B">> \o Dash \o UrlE

ButtonLines ==
    {UrlLine, Hello, PlainTargetLine, SameLine, InnerSameLine, NoLabelLine, AlertTrueLine,
     AlertFalseLine, AlertEmptyFlagLine, AlertNoFlagLine, AlertNoDashLine, AlertInLabelLine,
     TwoLines}

\* the owner chooses New Post for the channel of the owner
StartPost == post_button_handler(OWNER_ID, [cmd |-> "post_do_", arg |-> ChannelA])
\* the owner presses Add Button
AskForButtons == post_button_flow(OWNER_ID, Data("addbtn_yes"), FALSE)
ButtonLineMessage ==
    \E t \in ButtonLines : ButtonsFollowed(OWNER_ID) /\ button_format_handler(OWNER_ID, TextMsg(t))
\* a user presses an alert button of a post: callback data "alert:<text>"
AlertCallback == \E u \in Users : post_module_callback(u, Data("alert:"))

NextParser ==
    \/ StartPost
    \/ AskForButtons
    \/ ButtonLineMessage
    \/ ClearButtonsCallback
    \/ AlertCallback

SpecParser == Init /\ [][NextParser]_vars

----------------------------------------------------------------------------
(* Handlers that run concurrently.  A handler runs from one await to the    *)
(* next without interruption; at an await for the Bot API another update's  *)
(* handler may run.  A waiting handler keeps what its local variables hold. *)

\* the id of the next update: no waiting handler has it
FreeId ==
    CHOOSE i \in 1..(MaxSuspended + 1) :
        /\ i \notin {t.id : t \in suspended}
        /\ \A j \in 1..(i - 1) : j \in {t.id : t \in suspended}

\* a handler of update `id` waiting at its await.  m: the message of the update;
\* session: the session dict as the handler read it; ok: whether Telegram accepts the
\* call it waits for; overtaken: history, the user's other handlers issued an INSERT
\* while this one waited
Waiting(op, u, m, session, ok) ==
    [id |-> FreeId, op |-> op, user |-> u, m |-> m, session |-> session, ok |-> ok,
     overtaken |-> FALSE]

\* addch_forward_handler up to the await of get_chat_member
addch_forward_begin(u, m) ==
    /\ UNCHANGED <<USER_SESSION, user_states, pb_channels, inbound>>
    /\ IF u \notin WAITING_ADD_CHANNEL
       THEN /\ last' = Outcome("addch_forward_handler", u, <<>>, <<>>, "")
            /\ UNCHANGED <<WAITING_ADD_CHANNEL, channels, suspended>>
       ELSE IF Resolve(m) # "channel" THEN addch_reject(u, m) /\ UNCHANGED suspended
       ELSE /\ suspended' = suspended \cup {Waiting("addch_forward_handler", u, m, EmptyDict, FALSE)}
            /\ last' = Outcome("addch_forward_handler", u, <<>>, <<>>, "")
            /\ UNCHANGED <<WAITING_ADD_CHANNEL, channels>>
    /\ run' = Track(NoData, m)

\* addch_forward_handler from the answer r of get_chat_member to its end: the
\* waiting entry is not read again
addch_forward_resume(t, r) ==
    LET cid == OriginChat(t.m).id
        lookup == GetChatMember(cid, r)
        rest == suspended \ {t}
    IN
    /\ t.op = "addch_forward_handler"
    /\ UNCHANGED <<USER_SESSION, user_states, pb_channels, inbound, run>>
    /\ IF r.error # "" \/ ~IsAdminStatus(r.status)
       THEN addch_denied(t.user, r, lookup) /\ suspended' = rest
       ELSE /\ addch_persist(t.user, cid, ResolvedTitle(t.m), lookup)
            /\ suspended' = {IF w.op = t.op /\ w.user = t.user
                              THEN [w EXCEPT !.overtaken = TRUE] ELSE w : w \in rest}

AddchBegin ==
    \E u \in Users, m \in {ForwardOf(ChannelA, 7), ForwardOf(ChannelB, 7), TextMsg(Hello)} :
        Cardinality(suspended) < MaxSuspended /\ addch_forward_begin(u, m)
AddchResume == \E t \in suspended, r \in LookupResults : addch_forward_resume(t, r)

NextRaceAddch ==
    \/ AddchCommand
    \/ AddchBegin
    \/ AddchResume

SpecRaceAddch == Init /\ [][NextRaceAddch]_vars

\* post_button_flow on sendpost_yes up to the await of the send or edit call; the
\* handler that reaches no such call runs to its end
confirm_begin(u, ok) ==
    LET d == Data("sendpost_yes") IN
    IF \/ ~HasSession(USER_SESSION, u)
       \/ ~({"message", "buttons"} \subseteq DOMAIN USER_SESSION[u])
       \/ confirm_try(USER_SESSION[u], ok).calls = <<>>
    THEN post_button_flow(u, d, FALSE)
    ELSE /\ suspended' = suspended \cup
                            {Waiting("post_button_flow", u, NoMessage, USER_SESSION[u], ok)}
         /\ last' = [Outcome("post_button_flow", u, <<"processing">>,
                             confirm_try(USER_SESSION[u], ok).calls, "")
                         EXCEPT !.data = d]
         /\ UNCHANGED <<WAITING_ADD_CHANNEL, USER_SESSION, channels, user_states, pb_channels,
                        inbound>>
         /\ run' = Track(d, NoMessage)

\* post_button_flow on sendpost_yes from the return of the send or edit call to its
\* end: the reply, then clean_session(user_id)
confirm_finish(t) ==
    /\ t.op = "post_button_flow"
    /\ suspended' = suspended \ {t}
    /\ USER_SESSION' = clean_session(USER_SESSION, t.user)
    /\ last' = [Outcome("post_button_flow", t.user, confirm_try(t.session, t.ok).replies,
                        <<>>, "")
                    EXCEPT !.data = Data("sendpost_yes")]
    /\ UNCHANGED <<WAITING_ADD_CHANNEL, channels, user_states, pb_channels, inbound, run>>

\* the owner chooses New Post or Edit Post for the stored channel
ChooseMode ==
    \E c \in {"post_do_", "edit_do_"} :
        post_button_handler(OWNER_ID, [cmd |-> c, arg |-> ChannelA])
\* the owner sends a text or forwards a message of the channel
SendContent ==
    \E m \in {TextMsg(Hello), ForwardOf(ChannelA, 7)} : user_message_handler(OWNER_ID, m)
ConfirmBegin ==
    \E u \in Users, ok \in BOOLEAN :
        Cardinality(suspended) < MaxSuspended /\ confirm_begin(u, ok)
ConfirmFinish == \E t \in suspended : confirm_finish(t)

NextRacePost ==
    \/ PostCommand
    \/ ChooseMode
    \/ SendContent
    \/ ConfirmBegin
    \/ ConfirmFinish

SpecRacePost == Init /\ [][NextRacePost]_vars

----------------------------------------------------------------------------
(* Properties of the registration flow *)

\* the persistChannel calls of the last update: the INSERTs that were issued
PersistCalls == CallsOf("insert_channel")
LookupCalls == CallsOf("get_chat_member")
IsRegistration == last.op \in {"addch_forward_handler", "forward_handler"}
\* the user of the last update is waiting for a forward in the program that handled it
StillWaiting ==
    IF last.op = "forward_handler" THEN pb_Awaiting(last.user)
    ELSE last.user \in WAITING_ADD_CHANNEL
\* the lookup of the last update reported the bot as administrator or creator
AdminLookup ==
    LookupCalls # <<>> /\ LookupCalls[1].status \in {"administrator", "creator"}

\* C1: when a waiting user's message resolves to a channel and the lookup reports
\* administrator or creator, exactly one persistChannel call for that channel and
\* user is made and takes effect, and the user is no longer waiting afterward
C1_RegistrationPersistsOnce ==
    (last.op = "addch_forward_handler" /\ AdminLookup)
    => /\ Len(PersistCalls) = 1
       /\ PersistCalls[1].ok
       /\ PersistCalls[1].chat_id = LookupCalls[1].chat_id
       /\ PersistCalls[1].owner = last.user
       /\ HasRow(channels, PersistCalls[1].chat_id)
       /\ last.user \notin WAITING_ADD_CHANNEL

RejectReplies ==
    {"hides_channel_identity", "not_forwarded_from_channel", "forward_from_channel_only",
     "forward_from_a_channel"}

\* C2: after a message the forward detection rejected (not a forward, not a channel,
\* hidden origin) the user is still waiting for a forward and no persistChannel call
\* was made
C2_RejectedForwardKeepsWaiting ==
    (IsRegistration /\ last.replies # <<>> /\ last.replies[1] \in RejectReplies)
    => StillWaiting /\ PersistCalls = <<>>

C2_Witness ==
    /\ last.op = "addch_forward_handler"
    /\ last.replies = <<"hides_channel_identity">>
    /\ last.user \in WAITING_ADD_CHANNEL

LookupErrorReplies ==
    {"not_an_admin", "cannot_access_channel", "bot_must_be_admin", "bot_not_a_member",
     "error_verifying_channel"}

\* C3: a lookup that fails or reports a status other than administrator/creator is
\* answered with an error reply, leaves the user waiting and makes no persistChannel
\* call; a persistChannel call is made only after a lookup that returned administrator
\* or creator
C3_LookupGuardsPersist ==
    IsRegistration
    => /\ (LookupCalls # <<>> /\ ~AdminLookup)
          => /\ Len(last.replies) = 1 /\ last.replies[1] \in LookupErrorReplies
             /\ StillWaiting
             /\ PersistCalls = <<>>
       /\ PersistCalls # <<>>
          => AdminLookup /\ last.calls[1] = LookupCalls[1] /\ Len(LookupCalls) = 1

C3_Witness ==
    /\ last.op = "addch_forward_handler"
    /\ LookupCalls # <<>> /\ LookupCalls[1].status = "member"
    /\ last.replies = <<"not_an_admin">>
    /\ last.user \in WAITING_ADD_CHANNEL

----------------------------------------------------------------------------
(* The forward detection against its reference *)

\* the reply that names each failure
FailureReply(class) ==
    CASE class = "hidden_origin" -> "hides_channel_identity"
      [] class = "not_a_forward" -> "not_forwarded_from_channel"
      [] class = "wrong_source_type" -> "forward_from_channel_only"
      [] class = "no_channel_id" -> "cannot_read_channel_id"

\* the detection was applied to inbound by the last update
Detected == last.op = "addch_forward_handler" /\ (last.replies # <<>> \/ last.calls # <<>>)

\* what the last update shows of the class the detection gave: success goes on to
\* the membership lookup, a failure is answered with its reply and nothing else
Shows(class) ==
    IF class = "channel" THEN LookupCalls # <<>>
    ELSE last.replies = <<FailureReply(class)>> /\ last.calls = <<>>

HasDirect(m) == m.forward_from_chat # NoChat
HasStructured(m) == m.forward_origin.present /\ m.forward_origin.chat # NoChat

\* the priority order as stated: a channel in the direct reference, else a channel
\* in the structured origin, else hidden origin, else not a forward, else wrong type
StatedClass(m) ==
    IF HasDirect(m) /\ m.forward_from_chat.type = "channel" THEN "channel"
    ELSE IF HasStructured(m) /\ m.forward_origin.chat.type = "channel" THEN "channel"
    ELSE IF m.forward_sender_name # "" /\ ~HasDirect(m) /\ ~HasStructured(m)
         THEN "hidden_origin"
    ELSE IF ~HasDirect(m) /\ ~HasStructured(m) THEN "not_a_forward"
    ELSE "wrong_source_type"

\* C4 as stated: the detection classifies every message by the stated priority order
C4_StatedPriorityOrder == Detected => Shows(StatedClass(inbound))

\* the chats a message carries, in the order direct reference, forwarding user,
\* structured origin
CarriedChats(m) ==
    (IF HasDirect(m) THEN <<m.forward_from_chat>> ELSE <<>>)
    \o (IF m.forward_from THEN <<[id |-> 9, type |-> "", title |-> ""]>> ELSE <<>>)
    \o (IF HasStructured(m) THEN <<m.forward_origin.chat>> ELSE <<>>)

AmendedClass(m) ==
    IF CarriedChats(m) = <<>>
    THEN IF m.forward_sender_name # "" THEN "hidden_origin" ELSE "not_a_forward"
    ELSE IF CarriedChats(m)[1].type # "channel" THEN "wrong_source_type"
    ELSE IF CarriedChats(m)[1].id = 0 THEN "no_channel_id"
    ELSE "channel"

\* C4 amended: the detection takes the first chat the message carries among the
\* direct reference, the forwarding user and the structured origin; with none it
\* fails as hidden origin if a sender name is set and as not a forward otherwise;
\* a first chat that is no channel fails as wrong source type, a channel without
\* id fails for its missing id, and any other channel is the success, whose id is
\* the one looked up
C4_FirstCarriedChatDecides ==
    Detected
    => /\ Shows(AmendedClass(inbound))
       /\ LookupCalls # <<>> => LookupCalls[1].chat_id = CarriedChats(inbound)[1].id

C4_Witness ==
    /\ Detected
    /\ inbound.forward_from_chat = GroupChat
    /\ inbound.forward_origin = Origin(ChannelChat(ChannelA))
    /\ last.replies = <<"forward_from_channel_only">>

----------------------------------------------------------------------------
(* Properties of the post and edit flow *)

SendApis == {"send_message", "send_photo", "send_video", "send_document"}
EditApis == {"edit_message_text", "edit_message_media"}

\* the session of u holds captured content and what the dispatch reads
HoldsDraft(u) ==
    /\ HasSession(USER_SESSION, u)
    /\ {"message", "buttons", "mode", "channel_id", "edit_target"} \subseteq DOMAIN USER_SESSION[u]
    /\ USER_SESSION[u]["message"] # NoMessage

\* the calls of the step are one dispatch of the session: one edit of
\* (channel_id, edit_target) in edit mode, one send to channel_id in post mode,
\* with the buttons as markup
OneDispatchOf(session, calls) ==
    /\ Len(calls) = 1
    /\ calls[1].chat_id = session["channel_id"]
    /\ calls[1].markup = session["buttons"]
    /\ IF session["mode"] = "edit"
       THEN calls[1].api \in EditApis /\ calls[1].message_id = session["edit_target"]
       ELSE calls[1].api \in SendApis

\* C5: a sendpost_yes on a session that holds captured content dispatches exactly
\* one external operation, whatever the kind of the content: one edit of
\* (channel_id, edit_target) in edit mode, one send to channel_id in post mode, each
\* with the accumulated buttons as the inline keyboard
C5_ConfirmDispatchesOnce ==
    [][\A u \in Users, ok \in BOOLEAN :
          (HoldsDraft(u) /\ post_button_flow(u, Data("sendpost_yes"), ok))
          => OneDispatchOf(USER_SESSION[u], last'.calls)]_vars

\* C6: a confirmation that dispatched made one call and no second one; if the call
\* failed the handler did not raise and told the user of the error; the session is
\* absent after the failed and after the successful dispatch
C6_DispatchClearsSession ==
    (last.op = "post_button_flow" /\ last.calls # <<>>)
    => /\ Len(last.calls) = 1
       /\ last.exc = ""
       /\ ~HasSession(USER_SESSION, last.user)
       /\ IF last.calls[1].ok
          THEN last.replies \in {<<"processing", "sent_successfully">>,
                                 <<"processing", "edited_successfully">>}
          ELSE last.replies = <<"processing", "error_occurred_check">>

C6_Witness ==
    /\ last.op = "post_button_flow"
    /\ Len(last.calls) = 1 /\ ~last.calls[1].ok
    /\ last.calls[1].api = "send_photo"
    /\ ~HasSession(USER_SESSION, last.user)

\* C7: at the end of a run /post, select c, post_do_c, text t, addbtn_no,
\* sendpost_yes the calls are exactly one send_message of t to c without reply
\* markup, none of them an edit, and the owner has no session
C7_NewPostRunSendsOnce ==
    run.pos = 6
    => /\ Len(last.calls) = 1
       /\ \E ok \in BOOLEAN :
             last.calls[1] = Call("send_message", run.c, 0, run.t, "", <<>>, <<>>, "", 0, ok)
       /\ CallsOf("edit_message_text") = <<>> /\ CallsOf("edit_message_media") = <<>>
       /\ ~HasSession(USER_SESSION, OWNER_ID)

C7_Witness ==
    /\ run.pos = 6 /\ run.c = ChannelA /\ run.t = Hello
    /\ last.op = "post_button_flow"
    /\ last.replies = <<"processing", "sent_successfully">>

\* the handlers of the /post command and of the callbacks of the flow
PostFlowOps ==
    {"post_handler", "post_button_handler", "post_button_flow", "clear_buttons_handler"}
\* the two wordings of the denial
Denials == {"not_allowed_command", "not_allowed_feature"}

\* C8: a command or callback of the post/edit flow from a user who is not the owner
\* changes no session and is answered with the denial message and nothing else,
\* whether or not the user has a session
C8_NonOwnerDenied ==
    [][(last'.user # OWNER_ID /\ last'.op \in PostFlowOps)
          => /\ USER_SESSION' = USER_SESSION
             /\ Len(last'.replies) = 1 /\ last'.replies[1] \in Denials]_vars

\* C9: no user is at once waiting for a forward of the registration flow and holding
\* a session of the post/edit flow
C9_OneFlowPerUser ==
    \A u \in Users : ~(u \in WAITING_ADD_CHANNEL /\ HasSession(USER_SESSION, u))

DraftKeys == {"message", "buttons", "mode", "channel_id", "edit_target"}
\* what a session holds under a key of a draft when no draft is there
NoDraftValue(k) ==
    CASE k = "message" -> NoMessage
      [] k = "buttons" -> <<>>
      [] k = "mode" -> ""
      [] OTHER -> 0

\* C10: right after a /post that started a flow, the session holds no content,
\* buttons, mode, channel or edit target
C10_PostStartsClean ==
    (last.op = "post_handler" /\ HasSession(USER_SESSION, last.user))
    => \A k \in DraftKeys \cap DOMAIN USER_SESSION[last.user] :
           USER_SESSION[last.user][k] = NoDraftValue(k)

----------------------------------------------------------------------------
(* Properties of the edit forward and of the content steps *)

\* the channel ids a message carries as its forward origin, by either representation
ForwardedFrom(m) ==
    (IF m.forward_from_chat # NoChat THEN {m.forward_from_chat.id} ELSE {})
    \cup (IF m.forward_origin.present /\ m.forward_origin.chat # NoChat
          THEN {m.forward_origin.chat.id} ELSE {})

EditForwardAwaited ==
    /\ HasSession(USER_SESSION, OWNER_ID)
    /\ HasKey(USER_SESSION[OWNER_ID], "step")
    /\ USER_SESSION[OWNER_ID]["step"] = "await_edit_forward"

\* C11: while the forward of the post to edit is awaited, a forward whose origin is
\* another chat than the selected channel is rejected: the session stays as it is (step
\* await_edit_forward, no edit target) and no call goes out
C11_ForeignForwardRejected ==
    [][EditForwardAwaited
          => \A m \in CoreMessages :
                 (/\ ForwardedFrom(m) # {}
                  /\ USER_SESSION[OWNER_ID]["channel_id"] \notin ForwardedFrom(m)
                  /\ user_message_handler(OWNER_ID, m))
                 => /\ USER_SESSION' = USER_SESSION
                    /\ USER_SESSION'[OWNER_ID]["edit_target"] = 0
                    /\ last'.calls = <<>> /\ last'.exc = ""
                    /\ last'.replies # <<>>]_vars

C11_Witness ==
    /\ last.op = "user_message_handler" /\ last.replies = <<"not_from_target_channel">>
    /\ EditForwardAwaited
    /\ USER_SESSION[OWNER_ID]["edit_target"] = 0

\* C12: while the forward of the post to edit is awaited, a message that carries the
\* selected channel as its forward origin, as forward_from_chat or as
\* forward_origin.chat, is accepted: its origin message id becomes the edit target and
\* the step becomes await_edit_newcontent
C12_OwnForwardAccepted ==
    [][EditForwardAwaited
          => \A m \in CoreMessages :
                 (/\ USER_SESSION[OWNER_ID]["channel_id"] \in ForwardedFrom(m)
                  /\ user_message_handler(OWNER_ID, m))
                 => /\ USER_SESSION'[OWNER_ID]["edit_target"] = m.forward_from_message_id
                    /\ USER_SESSION'[OWNER_ID]["step"] = "await_edit_newcontent"]_vars

ContentAwaited ==
    /\ HasSession(USER_SESSION, OWNER_ID)
    /\ HasKey(USER_SESSION[OWNER_ID], "step")
    /\ USER_SESSION[OWNER_ID]["step"] \in {"await_message", "await_edit_newcontent"}

\* C16: while content is awaited, the next message of the owner, of any kind, is stored
\* as it came as the content of the draft and the step becomes add_button_q; channel,
\* mode, edit target, buttons and every other session stay as they were
C16_ContentStoredAsSent ==
    [][ContentAwaited
          => \A m \in CoreMessages :
                 user_message_handler(OWNER_ID, m)
                 => USER_SESSION' =
                        [USER_SESSION EXCEPT ![OWNER_ID] =
                            [@ EXCEPT !["message"] = m, !["step"] = "add_button_q"]]]_vars

C16_Witness ==
    /\ last.op = "user_message_handler" /\ last.replies = <<"content_received">>
    /\ USER_SESSION[OWNER_ID]["step"] = "add_button_q"
    /\ USER_SESSION[OWNER_ID]["message"].kind = "other"
    /\ USER_SESSION[OWNER_ID]["mode"] = "edit"
    /\ USER_SESSION[OWNER_ID]["edit_target"] = 7

----------------------------------------------------------------------------
(* Properties of the menus and of their callbacks *)

\* C13: the Cancel callback post_close leaves the user without a session, whatever
\* the session held
C13_CloseDeletesSession ==
    last.data.cmd = "post_close" => ~HasSession(USER_SESSION, last.user)

\* the callbacks of the flow that need a session
SessionCallbacks ==
    {"page_next", "page_back", "page_refresh", "addbtn_yes", "addbtn_no", "change_content",
     "sendpost_yes", "clear_buttons"}

\* C14: a callback of the flow from the owner raises no error, and when the owner has
\* no session it is answered with the session-expired notice
C14_StaleCallbackSaysExpired ==
    [][(last'.data.cmd \in SessionCallbacks /\ last'.user = OWNER_ID)
          => /\ last'.exc = ""
             /\ ~HasSession(USER_SESSION, OWNER_ID) => last'.replies = <<"session_expired">>]_vars

ModeChosen ==
    /\ last.op = "post_button_handler" /\ last.data.cmd \in {"post_do_", "edit_do_"}
    /\ last.user = OWNER_ID
    /\ last.data.arg \in DOMAIN channels /\ channels[last.data.arg] # NoRow

\* C15: post_do_<id> and edit_do_<id> for a stored channel leave a session that records
\* the channel's id and title, mode post at step await_message or mode edit at step
\* await_edit_forward, no buttons, no content and no edit target
C15_ModeChoiceStartsDraft ==
    ModeChosen
        => /\ HasSession(USER_SESSION, OWNER_ID)
           /\ LET session == USER_SESSION[OWNER_ID] IN
              /\ DOMAIN session = {"step", "mode", "channel_id", "channel_title", "message",
                                   "edit_target", "buttons", "page"}
              /\ session["channel_id"] = last.data.arg
              /\ session["channel_title"] = channels[last.data.arg].channel_title
              /\ session["mode"] = (IF last.data.cmd = "post_do_" THEN "post" ELSE "edit")
              /\ session["step"] = (IF last.data.cmd = "post_do_" THEN "await_message"
                                    ELSE "await_edit_forward")
              /\ session["buttons"] = <<>>
              /\ session["message"] = NoMessage
              /\ session["edit_target"] = 0

C15_Witness ==
    /\ ModeChosen /\ last.data.cmd = "edit_do_" /\ last.replies = <<"edit_mode">>
    /\ USER_SESSION[OWNER_ID]["channel_title"] = "Sport"

\* the fields of a session other than the page
OffPage(session) == [k \in DOMAIN session \ {"page"} |-> session[k]]

\* C19: page_next, page_back and page_refresh of the owner neither create nor delete a
\* session and change no field of it but the page
C19_NavigationMovesPageOnly ==
    [][(/\ last'.op = "post_button_handler" /\ last'.user = OWNER_ID
        /\ last'.data.cmd \in {"page_next", "page_back", "page_refresh"})
          => /\ HasSession(USER_SESSION', OWNER_ID) = HasSession(USER_SESSION, OWNER_ID)
             /\ HasSession(USER_SESSION, OWNER_ID)
                    => OffPage(USER_SESSION'[OWNER_ID]) = OffPage(USER_SESSION[OWNER_ID])]_vars

----------------------------------------------------------------------------
(* Properties of the button loop and of the change of content *)

FlowAnswered(cmd, reply) ==
    /\ last'.op = "post_button_flow" /\ last'.data.cmd = cmd /\ last'.replies = <<reply>>

\* C17: the add-button choice leads to step await_button_format; a text that parses
\* there adds one button and leads back to the choice, step add_button_q; the
\* continue choice leads to step send_post_q
C17_ButtonLoop ==
    [][/\ FlowAnswered("addbtn_yes", "add_button_formats")
              => USER_SESSION'[last'.user]["step"] = "await_button_format"
       /\ (last'.op = "button_format_handler" /\ Len(last'.replies) = 2
              /\ last'.replies[2] = "buttons_added")
              => /\ ButtonCount(USER_SESSION'[last'.user]["buttons"])
                        = ButtonCount(USER_SESSION[last'.user]["buttons"]) + 1
                 /\ USER_SESSION'[last'.user]["step"] = "add_button_q"
       /\ FlowAnswered("addbtn_no", "ready_to_send")
              => USER_SESSION'[last'.user]["step"] = "send_post_q"]_vars

\* C18: change_content puts the session back to the content step of its mode
\* (await_message for post, await_edit_newcontent for edit) and empties its buttons;
\* channel, mode, edit target and every other field and session stay as they were
C18_ChangeContentFrame ==
    [][FlowAnswered("change_content", "send_new_content")
          => LET session == USER_SESSION[last'.user] IN
             USER_SESSION' =
                 [USER_SESSION EXCEPT ![last'.user] =
                     [session EXCEPT !["step"] = IF session["mode"] = "post"
                                                 THEN "await_message"
                                                 ELSE "await_edit_newcontent",
                                     !["buttons"] = <<>>]]]_vars

C18_Witness ==
    /\ last.op = "post_button_flow" /\ last.data.cmd = "change_content"
    /\ last.replies = <<"send_new_content">>
    /\ USER_SESSION[OWNER_ID]["step"] = "await_edit_newcontent"
    /\ USER_SESSION[OWNER_ID]["edit_target"] = 7
    /\ USER_SESSION[OWNER_ID]["message"] # NoMessage
    /\ USER_SESSION[OWNER_ID]["buttons"] = <<>>

----------------------------------------------------------------------------
(* Properties of messages outside every flow *)

MessageOps == {"addch_forward_handler", "user_message_handler", "button_format_handler"}

\* C20: a message of a user who is neither waiting to add a channel nor holds a session
\* is ignored by every message handler: no session and no waiting entry is made, no
\* table changes, nothing is replied, no call goes out and nothing is raised
C20_StrayMessageIgnored ==
    [][(/\ last'.op \in MessageOps
        /\ last'.user \notin WAITING_ADD_CHANNEL
        /\ ~HasSession(USER_SESSION, last'.user))
          => /\ UNCHANGED <<WAITING_ADD_CHANNEL, USER_SESSION, channels, user_states,
                            pb_channels>>
             /\ last'.replies = <<>> /\ last'.calls = <<>> /\ last'.exc = ""]_vars

C20_Witness ==
    /\ last.op = "button_format_handler" /\ last.user = OWNER_ID
    /\ last.replies = <<>>
    /\ ~HasSession(USER_SESSION, OWNER_ID) /\ OWNER_ID \notin WAITING_ADD_CHANNEL
    /\ OWNER_ID + 1 \in WAITING_ADD_CHANNEL

----------------------------------------------------------------------------
(* Properties of the button lines *)

ButtonAwaited ==
    /\ HasSession(USER_SESSION, OWNER_ID)
    /\ {"step", "buttons"} \subseteq DOMAIN USER_SESSION[OWNER_ID]
    /\ USER_SESSION[OWNER_ID]["step"] = "await_button_format"

\* label and target of a line "Label - target": the parts around the first " - "
HasDelimiter(t) == Contains(Strip(t), Dash)
LineLabel(t) == Strip(Split1(Strip(t), Dash)[1])
LineTarget(t) == Strip(Split1(Strip(t), Dash)[2])

\* the target begins with http:// or https://
IsUrl(target) ==
    \/ MatchAt(target, <<"h", "t", "t", "p", ":", "/", "/">>, 1)
    \/ MatchAt(target, <<"h", "t", "t", "p", "s", ":", "/", "/">>, 1)

EndsWithSame(target) ==
    Len(target) >= Len(ColonSame) /\ MatchAt(target, ColonSame, Len(target) - Len(ColonSame) + 1)

\* the buttons of all rows
ButtonsIn(rows) == {rows[i][j] : <<i, j>> \in {x \in (1..Len(rows)) \X (1..MaxButtons + 1) :
                                                 x[2] <= Len(rows[x[1]])}}

\* C21: a URL button is stored only for a target that begins with http:// or
\* https://, and a line "Label - target" whose target is neither such a URL nor an
\* ":alert:" form is answered as an error and adds no button
C21_OnlyUrlTargetsMakeUrlButtons ==
    [][ButtonAwaited
          => \A t \in ButtonLines :
                 button_format_handler(OWNER_ID, TextMsg(t))
                 => /\ \A b \in ButtonsIn(USER_SESSION'[OWNER_ID]["buttons"]) :
                           b.url # <<>> => IsUrl(b.url)
                    /\ (/\ HasDelimiter(t) /\ ~IsUrl(LineTarget(t))
                        /\ ~Contains(LineTarget(t), ColonAlertColon))
                           => /\ USER_SESSION' = USER_SESSION
                              /\ "buttons_added" \notin {last'.replies[i] :
                                                           i \in 1..Len(last'.replies)}]_vars

\* the rows the grammar gives for a URL line after the rows before
StatedUrlRows(before, label, target) ==
    IF EndsWithSame(target)
    THEN LET b == UrlButton(label, Strip(SubSeq(target, 1, Len(target) - Len(ColonSame)))) IN
         IF before = <<>> THEN <<<<b>>>>
         ELSE [before EXCEPT ![Len(before)] = Append(@, b)]
    ELSE Append(before, <<UrlButton(label, target)>>)

\* C22: for a line with a URL target, a target that ends with ":same" has the suffix
\* stripped and its button appended to the last row, any other target starts a new row
\* after the rows before; the rows and buttons before keep their places
C22_SameSuffixJoinsLastRow ==
    [][ButtonAwaited
          => \A t \in ButtonLines :
                 (/\ HasDelimiter(t) /\ IsUrl(LineTarget(t))
                  /\ button_format_handler(OWNER_ID, TextMsg(t)))
                 => USER_SESSION'[OWNER_ID]["buttons"] =
                        StatedUrlRows(USER_SESSION[OWNER_ID]["buttons"],
                                      LineLabel(t), LineTarget(t))]_vars

ErrorReplies == {"invalid_format", "invalid_alert_format", "error_parsing_button"}

\* C23: a line the parser does not take, such as one without " - ", is answered with
\* the error and leaves every session as it was: the buttons added before stay and
\* the step stays await_button_format
C23_ParseErrorKeepsButtons ==
    [][ButtonAwaited
          => \A t \in ButtonLines :
                 button_format_handler(OWNER_ID, TextMsg(t))
                 => /\ ~HasDelimiter(t)
                           => Len(last'.replies) = 1 /\ last'.replies[1] \in ErrorReplies
                    /\ (Len(last'.replies) = 1 /\ last'.replies[1] \in ErrorReplies)
                           => USER_SESSION' = USER_SESSION /\ last'.exc = ""]_vars

C23_Witness ==
    /\ last.op = "button_format_handler" /\ last.replies = <<"invalid_format">>
    /\ ButtonAwaited
    /\ USER_SESSION[OWNER_ID]["buttons"] # <<>>

\* the buttons a line leaves in the owner's session
ButtonsAfter(t) ==
    button_format_handler_result(USER_SESSION, OWNER_ID, TextMsg(t)).sess[OWNER_ID]["buttons"]
\* the button a line adds, when it adds one in a new row
AddedButton(t) == ButtonsAfter(t)[Len(ButtonsAfter(t))][1]

\* C24: a line "Label - AlertText:alert:<bool>" adds one alert button that carries
\* AlertText and the flag, so that the buttons of two lines that differ in the flag
\* differ; alert syntax without the boolean segment adds no button
C24_AlertCarriesTextAndFlag ==
    ButtonAwaited
        => /\ \A t \in {AlertTrueLine, AlertFalseLine} :
                  /\ ButtonCount(ButtonsAfter(t)) = ButtonCount(USER_SESSION[OWNER_ID]["buttons"]) + 1
                  /\ AddedButton(t).text = <<"G">>
                  /\ Contains(AddedButton(t).callback_data, <<"H", "i">>)
           /\ AddedButton(AlertTrueLine) # AddedButton(AlertFalseLine)
           /\ \A t \in {AlertEmptyFlagLine, AlertNoFlagLine} :
                  ButtonsAfter(t) = USER_SESSION[OWNER_ID]["buttons"]

\* C25: a callback that carries the data of an alert button is handled and answered
\* with the alert text
C25_AlertCallbackAnswered ==
    last.data.cmd = "alert:" => last.op # "" /\ last.replies # <<>>

\* the lines of a text that are not empty after trimming
Newline == <<"\n">>
NonEmptyLines(t) == SelectSeq(Split(t, Newline), LAMBDA l : Strip(l) # <<>>)
\* a line of the grammar: label and target around the first " - ", the target a URL
\* or an alert form with its boolean segment
ValidLine(l) ==
    /\ HasDelimiter(l) /\ LineLabel(l) # <<>> /\ LineTarget(l) # <<>>
    /\ \/ IsUrl(LineTarget(l))
       \/ /\ Contains(LineTarget(l), ColonAlertColon)
          /\ Len(Split(LineTarget(l), ColonAlertColon)) = 2
          /\ Strip(Split(LineTarget(l), ColonAlertColon)[2]) # <<>>

\* C26: a text whose k non-empty lines are all valid adds exactly k buttons
C26_OneButtonPerLine ==
    [][ButtonAwaited
          => \A t \in ButtonLines :
                 (/\ \A i \in 1..Len(NonEmptyLines(t)) : ValidLine(NonEmptyLines(t)[i])
                  /\ button_format_handler(OWNER_ID, TextMsg(t)))
                 => ButtonCount(USER_SESSION'[OWNER_ID]["buttons"])
                        = ButtonCount(USER_SESSION[OWNER_ID]["buttons"])
                          + Len(NonEmptyLines(t))]_vars

\* C27: every button stored in a session has a label and a target (a URL or an alert
\* text) that are not empty
C27_StoredButtonsAreComplete ==
    \A u \in DOMAIN USER_SESSION :
        HasKey(USER_SESSION[u], "buttons")
            => \A b \in ButtonsIn(USER_SESSION[u]["buttons"]) :
                   /\ b.text # <<>>
                   /\ b.url # <<>> \/ b.callback_data # <<>>

\* C28: clear_buttons empties the buttons of the session and changes nothing else:
\* step, channel, mode, content, edit target and every other session stay as they were
C28_ClearButtonsFrame ==
    [][(last'.op = "clear_buttons_handler" /\ last'.replies = <<"buttons_cleared">>)
          => LET u == last'.user IN
             /\ DOMAIN USER_SESSION' = DOMAIN USER_SESSION
             /\ \A v \in DOMAIN USER_SESSION \ {u} : USER_SESSION'[v] = USER_SESSION[v]
             /\ DOMAIN USER_SESSION'[u] = DOMAIN USER_SESSION[u] \cup {"buttons"}
             /\ USER_SESSION'[u]["buttons"] = <<>>
             /\ \A k \in DOMAIN USER_SESSION[u] \ {"buttons"} :
                    USER_SESSION'[u][k] = USER_SESSION[u][k]]_vars

C28_Witness ==
    /\ last.op = "clear_buttons_handler" /\ last.replies = <<"buttons_cleared">>
    /\ last.user = OWNER_ID
    /\ {"step", "message", "edit_target"} \subseteq DOMAIN USER_SESSION[OWNER_ID]
    /\ USER_SESSION[OWNER_ID]["step"] = "send_post_q"
    /\ USER_SESSION[OWNER_ID]["message"] # NoMessage
    /\ USER_SESSION[OWNER_ID]["edit_target"] = 7
    /\ USER_SESSION[OWNER_ID]["buttons"] = <<>>

----------------------------------------------------------------------------
(* Properties of the channel table *)

\* C29: the table holds one record for a channel id, and a registration of a stored
\* channel that passed the lookup replaces the title and the owner of its record
C29_ReregistrationReplaces ==
    (last.op = "addch_forward_handler" /\ AdminLookup)
        => LET c == LookupCalls[1].chat_id IN
           /\ HasRow(channels, c)
           /\ channels[c].owner_id = last.user

\* C30: a delch_<id> callback of a user who is not the owner of the record leaves the
\* record in the table
C30_OnlyOwnerDeletes ==
    [][(/\ last'.op = "delch_button" /\ last'.data.cmd = "delch_"
        /\ HasRow(channels, last'.data.arg)
        /\ channels[last'.data.arg].owner_id # last'.user)
          => channels'[last'.data.arg] = channels[last'.data.arg]]_vars

----------------------------------------------------------------------------
(* /addch                                                                  *)

\* C31: after /addch, whatever the user's state was, the user waits for a forward and
\* the channel table was not written
C31_AddchStartsWaiting ==
    [][last'.op = "addch_handler"
         => /\ last'.user \in WAITING_ADD_CHANNEL'
            /\ channels' = channels
            /\ last'.calls = <<>>]_vars

C31_Witness ==
    /\ last.op = "addch_handler"
    /\ last.user \in WAITING_ADD_CHANNEL
    /\ HasSession(USER_SESSION, last.user)

----------------------------------------------------------------------------
(* The confirmation                                                        *)

\* C34: a sendpost_yes callback received at a step other than send_post_q, the step
\* whose keyboard offers it (post.py 420-425), issues no send and no edit
C34_DispatchOnlyAtConfirmation ==
    [][(/\ last'.op = "post_button_flow" /\ last'.data.cmd = "sendpost_yes"
        /\ HasSession(USER_SESSION, last'.user)
        /\ HasKey(USER_SESSION[last'.user], "step")
        /\ USER_SESSION[last'.user]["step"] # "send_post_q")
          => last'.calls = <<>>]_vars

\* C35: the message id of every edit call issued on sendpost_yes is a message id
\* captured from a forward (never the unset edit_target)
C35_EditTargetsCapturedMessage ==
    (last.op = "post_button_flow" /\ last.calls # <<>> /\ last.calls[1].api \in EditApis)
        => last.calls[1].message_id \in MsgIds

\* C36: no user but the owner has a session, and every send or edit call is issued
\* on an update of the owner
C36_OnlyOwnerHoldsSession ==
    /\ DOMAIN USER_SESSION \subseteq {OWNER_ID}
    /\ (\E i \in DOMAIN last.calls : last.calls[i].api \in SendApis \cup EditApis)
          => last.user = OWNER_ID

C36_Witness ==
    /\ last.op = "post_button_flow" /\ last.user = OWNER_ID
    /\ last.calls # <<>> /\ last.calls[1].api \in SendApis \cup EditApis /\ last.calls[1].ok

\* C37: every send or edit call issued on sendpost_yes goes to a channel that the
\* table holds with the dispatching user as owner_id
C37_DispatchToOwnChannel ==
    (last.op = "post_button_flow" /\ last.calls # <<>>
        /\ last.calls[1].api \in SendApis \cup EditApis)
        => /\ HasRow(channels, last.calls[1].chat_id)
           /\ channels[last.calls[1].chat_id].owner_id = last.user

----------------------------------------------------------------------------
(* The page cursor                                                         *)

\* max(1, ceil(n / PAGE_SIZE)) for the n channels of the user
PagesOf(u) ==
    LET n == Cardinality(RowsOf(channels, u))
        pages == (n + PAGE_SIZE - 1) \div PAGE_SIZE
    IN IF pages < 1 THEN 1 ELSE pages

\* C39: the page of every session addresses an existing page of the channels of its user
C39_PageAddressesExistingPage ==
    \A u \in DOMAIN USER_SESSION :
        HasKey(USER_SESSION[u], "page")
            => 0 <= USER_SESSION[u]["page"] /\ USER_SESSION[u]["page"] < PagesOf(u)

----------------------------------------------------------------------------
(* The INSERT of the registration                                          *)

\* C40: every column the INSERT of addch_forward_handler names is a column of the
\* channels table, so an INSERT that is issued returns, and the pop of the waiting
\* entry and the success reply after it are reached
C40_InsertReachesSuccessReply ==
    (last.op = "addch_forward_handler" /\ PersistCalls # <<>>)
        => /\ InsertColumns \subseteq ChannelsColumns
           /\ PersistCalls[1].ok
           /\ last.exc = ""
           /\ last.user \notin WAITING_ADD_CHANNEL
           /\ last.replies = <<"channel_added">>

----------------------------------------------------------------------------
(* Concurrent handlers                                                     *)

\* C32: a handler of a forwarded message that waited at the membership lookup issues
\* no INSERT when another handler of the same user issued one while it waited
C32_OneWritePerAddch ==
    [][\A t \in suspended \ suspended' :
          (t.op = "addch_forward_handler" /\ t.overtaken)
              => \A i \in DOMAIN last'.calls : last'.calls[i].api # "insert_channel"]_vars

\* C33: a sendpost_yes callback issues no send or edit call while a send or edit call
\* of an earlier sendpost_yes of the same user is in flight
C33_OneDispatchPerDraft ==
    [][(/\ last'.op = "post_button_flow" /\ last'.data.cmd = "sendpost_yes"
        /\ \E t \in suspended : t.op = "post_button_flow" /\ t.user = last'.user
        /\ suspended \subseteq suspended')
          => last'.calls = <<>>]_vars

\* C38: the end of a dispatch leaves the session alone when the session is no longer
\* the one that was dispatched (reset by /post or replaced by post_do_ / edit_do_
\* while the call was in flight)
C38_ClearOnlyDispatchedSession ==
    [][\A t \in suspended \ suspended' :
          (/\ t.op = "post_button_flow"
           /\ HasSession(USER_SESSION, t.user)
           /\ USER_SESSION[t.user] # t.session)
             => USER_SESSION' = USER_SESSION]_vars

============================================================================
